---- MODULE Spec2Model ----
(***************************************************************************)
(* A state-machine model of the fit version control engine (main.rs).      *)
(*                                                                         *)
(* The state is the repository on disk: the object store, the branch refs, *)
(* HEAD, the index file, the STAGING file, the STASH file and the working  *)
(* directory.  Every command of the CLI is one action that runs its whole  *)
(* handler.  A hash is the position of an object in the store: equal       *)
(* (type, payload) pairs share one position, different ones never do,      *)
(* which is what SHA-1 gives the program.  Text files are modelled by      *)
(* their lines and each line by its whitespace-separated tokens.           *)
(***************************************************************************)
EXTENDS Integers, Sequences, FiniteSets, TLC

Paths == {"a"}
Contents == {"x"}
Branches == {"master", "dev"}
Messages == {"m"}

\* The staging commands are also run on two contents of the one path.
StagingContents == {"x", "y"}

\* Caps on the number of stored objects (the store itself is unbounded), one
\* for each specification below.
MaxObjects == 4
MaxStagingObjects == 6
MaxBranchObjects == 5
MaxStashObjects == 5

\* Cap on the number of lines of the STASH file (the file itself is unbounded).
MaxStash == 2

\* The empty string where the program expects a hash (String::default()).
NoHash == 0

VARIABLES
    objects,        \* .fit/objects: sequence of objects, hash = position
    refs,           \* .fit/refs/heads: branch name -> content of the ref file
    head,           \* .fit/HEAD: the branch named after "ref: refs/heads/"
    indexFile,      \* .fit/index: set of lines <<hash, path>>
    stagingExists,  \* whether .fit/STAGING exists
    staging,        \* .fit/STAGING: set of lines <<"A",h,p>>, <<"M",h,p>>, <<"D",p>>
    stashExists,    \* whether .fit/STASH exists
    stash,          \* .fit/STASH: sequence of lines, each a hash
    wd,             \* working directory: path -> file content, for existing files
    last,           \* the command that ran last and how it ended; for stash
                    \* also the Index it started with
    fresh,          \* history: paths whose last add read the content now on disk
    made,           \* history: <<K, F, c>> for commit K created while F was fresh
                    \* with content c
    procs           \* `add` processes running at once: where each one is in
                    \* add_workflow and the Staging Delta and Index it holds

vars == <<objects, refs, head, indexFile, stagingExists, staging,
          stashExists, stash, wd, last, fresh, made, procs>>

-----------------------------------------------------------------------------
(* HashMap helpers *)

EmptyMap == [x \in {} |-> NoHash]

MapInsert(m, k, v) == [x \in DOMAIN m \cup {k} |-> IF x = k THEN v ELSE m[x]]

MapRemove(m, k) == [x \in DOMAIN m \ {k} |-> m[x]]

Range(s) == {s[i] : i \in DOMAIN s}

RECURSIVE SetToSeq(_)
SetToSeq(S) == IF S = {} THEN <<>>
               ELSE LET x == CHOOSE y \in S : TRUE IN <<x>> \o SetToSeq(S \ {x})

-----------------------------------------------------------------------------
(* Objects *)

Blob(c) == [type |-> "blob", data |-> c, rows |-> <<>>, headers |-> <<>>, msg |-> ""]

Tree(rows) == [type |-> "tree", data |-> "", rows |-> rows, headers |-> <<>>, msg |-> ""]

Commit(headers, m) == [type |-> "commit", data |-> "", rows |-> <<>>, headers |-> headers, msg |-> m]

\* read_object(hash).is_some()
Has(objs, h) == h \in DOMAIN objs

\* A store that files every put under a fresh name.
write_object_fresh(objs, o) == [store |-> Append(objs, o), hash |-> Len(objs) + 1]

\* write_object: the hash depends on (type, payload) only; the object file is
\* (re)written with the same bytes.
write_object(objs, o) ==
    IF \E h \in DOMAIN objs : objs[h] = o
    THEN [store |-> objs, hash |-> CHOOSE h \in DOMAIN objs : objs[h] = o]
    ELSE [store |-> Append(objs, o), hash |-> Len(objs) + 1]

\* The rows of a tree in one of the iteration orders of the HashMap.
RowOrders(index) ==
    LET D == DOMAIN index
        n == Cardinality(D)
    IN  { [i \in 1..n |-> <<"100644", "blob", index[f[i]], f[i]>>] :
            f \in {g \in [1..n -> D] : \A i, j \in 1..n : g[i] = g[j] => i = j} }

\* The path -> hash map parsed from tree rows (parts[3] -> parts[2]); a later
\* row overwrites an earlier one of the same path.
TreeFiles(rows) ==
    [p \in {rows[i][4] : i \in DOMAIN rows} |->
        LET k == CHOOSE i \in DOMAIN rows :
                    /\ rows[i][4] = p
                    /\ \A j \in DOMAIN rows : rows[j][4] = p => j <= i
        IN  rows[k][3]]

get_tree_files(objs, t) == TreeFiles(objs[t].rows)

get_commit_tree(objs, c) == objs[c].headers[1][2]

\* get_parent_commit: the hash on the first line that starts with "parent ",
\* or the empty string.
get_parent_commit(info) ==
    IF \E i \in DOMAIN info : info[i][1] = "parent"
    THEN LET k == CHOOSE i \in DOMAIN info :
                    /\ info[i][1] = "parent"
                    /\ \A j \in DOMAIN info : info[j][1] = "parent" => i <= j
         IN  info[k][2]
    ELSE NoHash

-----------------------------------------------------------------------------
(* Index and Staging Delta files *)

read_index(file) == [p \in {l[2] : l \in file} |->
                        (CHOOSE l \in file : l[2] = p)[1]]

write_index(index) == {<<index[p], p>> : p \in DOMAIN index}

NewStagingArea == [added |-> EmptyMap, modified |-> EmptyMap, deleted |-> <<>>]

\* Only lines of exactly three tokens are read back.
read_staging_area(exists, file) ==
    IF ~exists THEN NewStagingArea
    ELSE LET three == {l \in file : Len(l) = 3}
             A == {l \in three : l[1] = "A"}
             M == {l \in three : l[1] = "M"}
             D == {l \in three : l[1] = "D"}
         IN  [added    |-> [p \in {l[3] : l \in A} |-> (CHOOSE l \in A : l[3] = p)[2]],
              modified |-> [p \in {l[3] : l \in M} |-> (CHOOSE l \in M : l[3] = p)[2]],
              deleted  |-> SetToSeq({l[3] : l \in D})]

write_staging_area(sa) ==
    {<<"A", sa.added[p], p>> : p \in DOMAIN sa.added}
    \cup {<<"M", sa.modified[p], p>> : p \in DOMAIN sa.modified}
    \cup {<<"D", sa.deleted[i]>> : i \in DOMAIN sa.deleted}

-----------------------------------------------------------------------------
(* References *)

get_current_branch_master(hd) == "master"

get_current_branch(hd) == hd

get_current_commit(hd, rf) == rf[hd]

\* A ref update that always writes the ref of master.
update_current_branch_master(hd, rf, h) == MapInsert(rf, "master", h)

update_current_branch(hd, rf, h) == MapInsert(rf, get_current_branch(hd), h)

-----------------------------------------------------------------------------
(* Materializer *)

\* The second token of the first line of the payload, which reset_workflow
\* reads as the tree hash and unwraps.  A commit starts with "tree <hash>".
\* A tree has no first line (empty tree) or starts "100644 blob ...", and
\* "blob" names no object; a blob (file contents are single tokens here) has
\* no second token.  In those cases an unwrap panics: NoHash stands for that.
payload_tree_hash(o) == IF o.type = "commit" THEN o.headers[1][2] ELSE NoHash

\* A materializer that leaves only the files of the tree on disk.
working_tree_wipe(objs, new_index, current_files) ==
    [p \in DOMAIN new_index |-> objs[new_index[p]].data]

\* The working directory after the loop over the tree rows (each file of the
\* tree is overwritten with its blob) and the loop over
\* current_files.difference(&target_files) (each such file is removed).
working_tree(objs, new_index, current_files) ==
    [p \in (DOMAIN wd \cup DOMAIN new_index) \ (current_files \ DOMAIN new_index) |->
        IF p \in DOMAIN new_index THEN objs[new_index[p]].data ELSE wd[p]]

\* reset_workflow(commit_hash), run with the store objs, HEAD hd and refs rf
\* that its caller has already written.  The result gives the files it leaves.
reset_workflow(objs, hd, rf, commit_hash) ==
    LET same == [res |-> "NotFound", refs |-> rf, stagingExists |-> stagingExists,
                 staging |-> staging, indexFile |-> indexFile, wd |-> wd]
    IN  IF ~Has(objs, commit_hash) THEN same
        ELSE LET rf2 == update_current_branch(hd, rf, commit_hash)
                 tree_hash == payload_tree_hash(objs[commit_hash])
             IN  IF tree_hash = NoHash
                 THEN [same EXCEPT !.res = "panic", !.refs = rf2]
                 ELSE LET new_index == get_tree_files(objs, tree_hash)
                          current_files == DOMAIN read_index(indexFile)
                      IN  [res |-> "ok",
                           refs |-> rf2,
                           stagingExists |-> FALSE,
                           staging |-> {},
                           indexFile |-> write_index(new_index),
                           wd |-> working_tree(objs, new_index, current_files)]

-----------------------------------------------------------------------------
(* Stash stack file *)

write_stashing_area_at_end(exists, file, stash_hash) ==
    (IF exists THEN file ELSE <<>>) \o <<stash_hash>>

\* write_stashing_area: "{hash}\n{existing.trim()}".
write_stashing_area(exists, file, stash_hash) ==
    <<stash_hash>> \o (IF exists THEN file ELSE <<>>)

\* read_stashing_area: removes and returns the first line, if any.
read_stashing_area(exists, file) ==
    IF ~exists \/ file = <<>>
    THEN [top |-> NoHash, file |-> file]
    ELSE [top |-> Head(file), file |-> Tail(file)]

-----------------------------------------------------------------------------
(* Merge engine *)

\* get_commit_history: get_parent_commit is applied to element 0 of the
\* (type, payload) pair that read_object returns, i.e. to the type string.
RECURSIVE get_commit_history(_, _, _)
get_commit_history(objs, commit, fuel) ==
    IF commit = NoHash \/ fuel = 0 THEN <<>>
    ELSE <<commit>> \o
         get_commit_history(objs, get_parent_commit(<< <<objs[commit].type>> >>), fuel - 1)

\* find_merge_base: first commit of the branch's history found in the
\* current history; NoHash stands for the error "Merge Base not found".
find_merge_base(objs, current_commit, branch_commit) ==
    LET commit_history_1 == get_commit_history(objs, current_commit, Len(objs))
        commit_history_2 == get_commit_history(objs, branch_commit, Len(objs))
        hits == {i \in DOMAIN commit_history_2 : commit_history_2[i] \in Range(commit_history_1)}
    IN  IF hits = {} THEN NoHash
        ELSE commit_history_2[CHOOSE i \in hits : \A j \in hits : i <= j]

-----------------------------------------------------------------------------
(* Commands *)

\* res is how the command ended: "ok", the kind of the error it returned, or
\* "panic"; out is the notice it printed when it returned without acting.
Note(c, r, o) == last' = [cmd |-> c, res |-> r, out |-> o, pre |-> EmptyMap]

Done(c, r) == Note(c, r, "")

init_workflow ==
    LET t == write_object(<<>>, Tree(<<>>))
        c == write_object(t.store, Commit(<< <<"tree", t.hash>> >>, "Initial commit"))
    IN  /\ objects = c.store
        /\ head = "master"
        /\ refs = MapInsert(EmptyMap, "master", c.hash)
        /\ indexFile = {}
        /\ stagingExists = FALSE
        /\ staging = {}
        /\ stashExists = FALSE
        /\ stash = <<>>
        /\ wd = [p \in {} |-> ""]
        /\ last = [cmd |-> "init", res |-> "ok", out |-> "", pre |-> EmptyMap]
        /\ fresh = {}
        /\ made = {}

\* The processes that may run `add` at the same time.
ProcIds == {1, 2}

\* A process that has not started.
Idle == [pc |-> "idle", path |-> "", staging_area |-> NewStagingArea,
         index |-> EmptyMap, serial |-> TRUE]

Init == init_workflow /\ procs = [i \in ProcIds |-> Idle]

\* The user writes or removes a working file between commands.
edit_file(p, c) ==
    /\ wd' = MapInsert(wd, p, c)
    /\ Done("edit", "ok")
    /\ UNCHANGED <<objects, refs, head, indexFile, stagingExists, staging,
                   stashExists, stash>>

\* An add that records the hash of the file without storing its blob.
add_file_unwritten(objs, p, staging_area, index) ==
    LET w == write_object(objs, Blob(wd[p]))
    IN  [store |-> objs,
         hash |-> w.hash,
         staging_area |->
            IF p \in DOMAIN index
            THEN IF index[p] # w.hash
                 THEN [staging_area EXCEPT !.modified = MapInsert(@, p, w.hash)]
                 ELSE staging_area
            ELSE [staging_area EXCEPT !.added = MapInsert(@, p, w.hash)],
         index |-> MapInsert(index, p, w.hash)]

\* An add that files every path under Added.
add_file_always_added(objs, p, staging_area, index) ==
    LET w == write_object(objs, Blob(wd[p]))
    IN  [store |-> w.store,
         hash |-> w.hash,
         staging_area |-> [staging_area EXCEPT !.added = MapInsert(@, p, w.hash)],
         index |-> MapInsert(index, p, w.hash)]

add_file(objs, p, staging_area, index) ==
    LET w == write_object(objs, Blob(wd[p]))
    IN  [store |-> w.store,
         hash |-> w.hash,
         staging_area |->
            IF p \in DOMAIN index
            THEN IF index[p] # w.hash
                 THEN [staging_area EXCEPT !.modified = MapInsert(@, p, w.hash)]
                 ELSE staging_area
            ELSE [staging_area EXCEPT !.added = MapInsert(@, p, w.hash)],
         index |-> MapInsert(index, p, w.hash)]

add_workflow(p) ==
    LET staging_area == read_staging_area(stagingExists, staging)
        index == read_index(indexFile)
    IN  IF p \in DOMAIN wd
        THEN LET r == add_file(objects, p, staging_area, index)
             IN  /\ objects' = r.store
                 /\ staging' = write_staging_area(r.staging_area)
                 /\ stagingExists' = TRUE
                 /\ indexFile' = write_index(r.index)
                 /\ Done("add", "ok")
                 /\ UNCHANGED <<refs, head, stashExists, stash, wd>>
        ELSE /\ staging' = write_staging_area(staging_area)
             /\ stagingExists' = TRUE
             /\ indexFile' = write_index(index)
             /\ Note("add", "ok", "not a valid file or directory")
             /\ UNCHANGED <<objects, refs, head, stashExists, stash, wd>>

rm_workflow(p) ==
    LET staging_area == read_staging_area(stagingExists, staging)
        index == read_index(indexFile)
    IN  IF p \in DOMAIN wd /\ p \in DOMAIN index
        THEN /\ staging' = write_staging_area(
                              [staging_area EXCEPT !.deleted = Append(@, p)])
             /\ stagingExists' = TRUE
             /\ indexFile' = write_index(MapRemove(index, p))
             /\ Done("rm", "ok")
             /\ UNCHANGED <<objects, refs, head, stashExists, stash, wd>>
        ELSE /\ Note("rm", "ok", "not found")
             /\ UNCHANGED <<objects, refs, head, indexFile, stagingExists,
                            staging, stashExists, stash, wd>>

nothing_to_commit_unchecked(staging_area) == FALSE

\* The test at the top of commit_workflow.
nothing_to_commit(staging_area) ==
    /\ DOMAIN staging_area.added = {}
    /\ DOMAIN staging_area.modified = {}
    /\ staging_area.deleted = <<>>

\* "Apply changes from staging area to index": added, then modified, then deleted.
apply_staging(staging_area, index) ==
    LET ins == [p \in DOMAIN index \cup DOMAIN staging_area.added
                        \cup DOMAIN staging_area.modified |->
                  IF p \in DOMAIN staging_area.modified THEN staging_area.modified[p]
                  ELSE IF p \in DOMAIN staging_area.added THEN staging_area.added[p]
                  ELSE index[p]]
    IN  [p \in DOMAIN ins \ Range(staging_area.deleted) |-> ins[p]]

commit_workflow(message) ==
    LET staging_area == read_staging_area(stagingExists, staging)
    IN  IF nothing_to_commit(staging_area)
        THEN /\ Note("commit", "ok", "Nothing to commit")
             /\ UNCHANGED <<objects, refs, head, indexFile, stagingExists,
                            staging, stashExists, stash, wd>>
        ELSE LET index == apply_staging(staging_area, read_index(indexFile))
             IN  \E rows \in RowOrders(index) :
                    LET t == write_object(objects, Tree(rows))
                        parent_hash == get_current_commit(head, refs)
                        c == write_object(t.store,
                                Commit(<< <<"tree", t.hash>>, <<"parent", parent_hash>> >>,
                                       message))
                    IN  /\ objects' = c.store
                        /\ refs' = update_current_branch(head, refs, c.hash)
                        /\ stagingExists' = FALSE
                        /\ staging' = {}
                        /\ indexFile' = write_index(index)
                        /\ Done("commit", "ok")
                        /\ UNCHANGED <<head, stashExists, stash, wd>>

\* The files a run of reset_workflow leaves, from its result r.
Materialized(r) ==
    /\ refs' = r.refs
    /\ stagingExists' = r.stagingExists
    /\ staging' = r.staging
    /\ indexFile' = r.indexFile
    /\ wd' = r.wd

\* `reset <hash>`: any hash of the store, or one that names no object.
Reset(commit_hash) ==
    LET r == reset_workflow(objects, head, refs, commit_hash)
    IN  /\ Materialized(r)
        /\ Done("reset", r.res)
        /\ UNCHANGED <<objects, head, stashExists, stash>>

\* A create that writes the ref whether or not it exists.
create_branch_overwrite(name) ==
    IF name = "master"
    THEN /\ Done("create", "PermissionDenied")
         /\ UNCHANGED <<objects, refs, head, indexFile, stagingExists, staging,
                        stashExists, stash, wd>>
    ELSE /\ refs' = MapInsert(refs, name, get_current_commit(head, refs))
         /\ Done("create", "ok")
         /\ UNCHANGED <<objects, head, indexFile, stagingExists, staging,
                        stashExists, stash, wd>>

create_branch(name) ==
    IF name = "master"
    THEN /\ Done("create", "PermissionDenied")
         /\ UNCHANGED <<objects, refs, head, indexFile, stagingExists, staging,
                        stashExists, stash, wd>>
    ELSE IF name \in DOMAIN refs
    THEN /\ Done("create", "AlreadyExists")
         /\ UNCHANGED <<objects, refs, head, indexFile, stagingExists, staging,
                        stashExists, stash, wd>>
    ELSE /\ refs' = MapInsert(refs, name, get_current_commit(head, refs))
         /\ Done("create", "ok")
         /\ UNCHANGED <<objects, head, indexFile, stagingExists, staging,
                        stashExists, stash, wd>>

\* A delete that does not look at HEAD.
delete_branch_in_use(name) ==
    IF name = "master"
    THEN /\ Done("delete", "PermissionDenied")
         /\ UNCHANGED <<objects, refs, head, indexFile, stagingExists, staging,
                        stashExists, stash, wd>>
    ELSE IF name \notin DOMAIN refs
    THEN /\ Done("delete", "NotFound")
         /\ UNCHANGED <<objects, refs, head, indexFile, stagingExists, staging,
                        stashExists, stash, wd>>
    ELSE /\ refs' = MapRemove(refs, name)
         /\ Done("delete", "ok")
         /\ UNCHANGED <<objects, head, indexFile, stagingExists, staging,
                        stashExists, stash, wd>>

delete_branch(name) ==
    IF name = "master" \/ get_current_branch(head) = name
    THEN /\ Done("delete", "PermissionDenied")
         /\ UNCHANGED <<objects, refs, head, indexFile, stagingExists, staging,
                        stashExists, stash, wd>>
    ELSE IF name \notin DOMAIN refs
    THEN /\ Done("delete", "NotFound")
         /\ UNCHANGED <<objects, refs, head, indexFile, stagingExists, staging,
                        stashExists, stash, wd>>
    ELSE /\ refs' = MapRemove(refs, name)
         /\ Done("delete", "ok")
         /\ UNCHANGED <<objects, head, indexFile, stagingExists, staging,
                        stashExists, stash, wd>>

\* A checkout that rewrites HEAD before it looks for the ref.
Checkout_head_first(cmd, rf, name) ==
    IF name \notin DOMAIN rf
    THEN /\ head' = name
         /\ Done(cmd, "NotFound")
         /\ UNCHANGED <<objects, refs, indexFile, stagingExists, staging,
                        stashExists, stash, wd>>
    ELSE LET commit_hash == rf[name]
             r == reset_workflow(objects, name, rf, commit_hash)
         IN  /\ head' = name
             /\ Materialized(r)
             /\ Done(cmd, r.res)
             /\ UNCHANGED <<objects, stashExists, stash>>

\* checkout_branch run with the refs rf its caller has already written.
Checkout(cmd, rf, name) ==
    IF name \notin DOMAIN rf
    THEN /\ Done(cmd, "NotFound")
         /\ UNCHANGED <<objects, refs, head, indexFile, stagingExists, staging,
                        stashExists, stash, wd>>
    ELSE LET commit_hash == rf[name]
             r == reset_workflow(objects, name, rf, commit_hash)
         IN  /\ head' = name
             /\ Materialized(r)
             /\ Done(cmd, r.res)
             /\ UNCHANGED <<objects, stashExists, stash>>

checkout_branch(name) == Checkout("checkout", refs, name)

checkout_new_branch(name) ==
    IF name = "master"
    THEN /\ Done("checkout-new", "PermissionDenied")
         /\ UNCHANGED <<objects, refs, head, indexFile, stagingExists, staging,
                        stashExists, stash, wd>>
    ELSE IF name \in DOMAIN refs
    THEN /\ Done("checkout-new", "AlreadyExists")
         /\ UNCHANGED <<objects, refs, head, indexFile, stagingExists, staging,
                        stashExists, stash, wd>>
    ELSE Checkout("checkout-new",
                  MapInsert(refs, name, get_current_commit(head, refs)), name)

merge_workflow(branch) ==
    LET current_branch == get_current_branch(head)
        quiet(res, out) ==
            /\ Note("merge", res, out)
            /\ UNCHANGED <<objects, refs, head, indexFile, stagingExists, staging,
                           stashExists, stash, wd>>
    IN  IF current_branch = branch THEN quiet("InvalidInput", "")
        ELSE IF branch = "master" \/ current_branch # "master"
        THEN quiet("PermissionDenied", "")
        ELSE IF branch \notin DOMAIN refs THEN quiet("NotFound", "Branch not found")
        ELSE LET current_commit == get_current_commit(head, refs)
                 branch_commit == refs[branch]
                 merge_base == find_merge_base(objects, current_commit, branch_commit)
             IN  IF current_commit = branch_commit
                 THEN quiet("ok", "Already up to date")
                 ELSE IF merge_base = NoHash
                 THEN quiet("NotFound", "Merge Base not found")
                 ELSE IF merge_base = branch_commit
                 THEN \* fast_forward_merge
                      LET r == reset_workflow(objects, head,
                                  update_current_branch(head, refs, branch_commit),
                                  branch_commit)
                      IN  /\ Materialized(r)
                          /\ Done("merge", r.res)
                          /\ UNCHANGED <<objects, head, stashExists, stash>>
                 ELSE quiet("ok", "Performing three-way merge")

stash_content ==
    LET index == read_index(indexFile)
    IN  \E rows \in RowOrders(index) :
            LET t == write_object(objects, Tree(rows))
                parent_hash == get_current_commit(head, refs)
                s == write_object(t.store,
                        Commit(<< <<"tree", t.hash>>, <<"parent", parent_hash>> >>, "stash"))
                r == reset_workflow(s.store, head, refs, parent_hash)
            IN  /\ objects' = s.store
                /\ stash' = write_stashing_area(stashExists, stash, s.hash)
                /\ stashExists' = TRUE
                /\ Materialized(r)
                /\ last' = [cmd |-> "stash", res |-> r.res, out |-> "", pre |-> index]
                /\ UNCHANGED head

pop_stashed_content ==
    LET rd == read_stashing_area(stashExists, stash)
    IN  IF rd.top = NoHash
        THEN /\ Done("pop", "NotFound")
             /\ UNCHANGED <<objects, refs, head, indexFile, stagingExists, staging,
                            stashExists, stash, wd>>
        ELSE LET r == reset_workflow(objects, head, refs, rd.top)
             IN  /\ stash' = rd.file
                 /\ Materialized(r)
                 /\ Done("pop", r.res)
                 /\ UNCHANGED <<objects, head, stashExists>>

-----------------------------------------------------------------------------

\* The text passed to print_diff for a file missing from one commit.
NoContent == ""

\* The lines of a file content (file contents are at most one line here).
Lines(c) == IF c = NoContent THEN {} ELSE {c}

\* print_diff: the lines diff::lines tags Left (printed "-"), Right ("+") and
\* Both (" ") for an old and a new content of at most one line each.
print_diff(file_path, old_content, new_content) ==
    [path |-> file_path,
     left |-> Lines(old_content) \ Lines(new_content),
     right |-> Lines(new_content) \ Lines(old_content),
     both |-> Lines(old_content) \cap Lines(new_content)]

\* A diff that walks the files of the first commit only.
diff_commits_first_only(objs, commit1, commit2) ==
    LET files1 == get_tree_files(objs, get_commit_tree(objs, commit1))
        files2 == get_tree_files(objs, get_commit_tree(objs, commit2))
    IN  {[path |-> f, old |-> objs[files1[f]].data,
          new |-> IF f \in DOMAIN files2 THEN objs[files2[f]].data ELSE NoContent] :
            f \in {g \in DOMAIN files1 : g \in DOMAIN files2 => files1[g] # files2[g]}}

\* diff_commits: the calls print_diff(file, old, new) it makes, one for each
\* file of either tree that is missing from the other or has another hash.
diff_commits(objs, commit1, commit2) ==
    LET files1 == get_tree_files(objs, get_commit_tree(objs, commit1))
        files2 == get_tree_files(objs, get_commit_tree(objs, commit2))
        all_files == DOMAIN files1 \cup DOMAIN files2
        changed == {f \in all_files :
                       \/ f \in DOMAIN files1 /\ f \in DOMAIN files2 /\ files1[f] # files2[f]
                       \/ f \in DOMAIN files1 /\ f \notin DOMAIN files2
                       \/ f \notin DOMAIN files1 /\ f \in DOMAIN files2}
    IN  {[path |-> f,
          old |-> IF f \in DOMAIN files1 THEN objs[files1[f]].data ELSE NoContent,
          new |-> IF f \in DOMAIN files2 THEN objs[files2[f]].data ELSE NoContent] :
            f \in changed}

\* `diff commit c1 c2`: prints and changes no file.  get_commit_tree unwraps
\* the object and the second token of its first line, so an argument that is
\* not a stored commit panics.
diff_workflow(commit1, commit2) ==
    /\ Done("diff", IF /\ Has(objects, commit1) /\ Has(objects, commit2)
                       /\ payload_tree_hash(objects[commit1]) # NoHash
                       /\ payload_tree_hash(objects[commit2]) # NoHash
                    THEN "ok" ELSE "panic")
    /\ UNCHANGED <<objects, refs, head, indexFile, stagingExists, staging,
                   stashExists, stash, wd>>

\* The caps that keep the model finite: n objects, MaxStash stash lines.
Within(n) ==
    /\ Len(objects') <= n
    /\ Len(stash') <= MaxStash
    /\ UNCHANGED <<fresh, made, procs>>

\* The same caps, with the history of adds and commits kept: f is the new
\* value of fresh.
Tracked(n, f) ==
    /\ Len(objects') <= n
    /\ fresh' = f
    /\ made' = IF last'.cmd = "commit" /\ last'.out = ""
               THEN made \cup {<<get_current_commit(head', refs'), p, wd[p]>> : p \in fresh}
               ELSE made
    /\ UNCHANGED procs

\* Every command.
Next ==
    \/ \E p \in Paths, c \in Contents : edit_file(p, c) /\ Within(MaxObjects)
    \/ \E p \in Paths : add_workflow(p) /\ Within(MaxObjects)
    \/ \E p \in Paths : rm_workflow(p) /\ Within(MaxObjects)
    \/ \E m \in Messages : commit_workflow(m) /\ Within(MaxObjects)
    \/ \E h \in 1..(Len(objects) + 1) : Reset(h) /\ Within(MaxObjects)
    \/ \E n \in Branches : create_branch(n) /\ Within(MaxObjects)
    \/ \E n \in Branches : delete_branch(n) /\ Within(MaxObjects)
    \/ \E n \in Branches : checkout_branch(n) /\ Within(MaxObjects)
    \/ \E n \in Branches : checkout_new_branch(n) /\ Within(MaxObjects)
    \/ \E n \in Branches : merge_workflow(n) /\ Within(MaxObjects)
    \/ stash_content /\ Within(MaxObjects)
    \/ pop_stashed_content /\ Within(MaxObjects)

Spec == Init /\ [][Next]_vars

\* The working-state commands (add, rm, commit, reset) on two file contents.
NextStaging ==
    \/ \E p \in Paths, c \in StagingContents :
          edit_file(p, c) /\ Tracked(MaxStagingObjects, fresh \ {p})
    \/ \E p \in Paths :
          add_workflow(p) /\ Tracked(MaxStagingObjects,
                                     IF p \in DOMAIN wd THEN fresh \cup {p} ELSE fresh)
    \/ \E p \in Paths : rm_workflow(p) /\ Tracked(MaxStagingObjects, fresh \ {p})
    \/ \E m \in Messages : commit_workflow(m) /\ Tracked(MaxStagingObjects, fresh)
    \/ \E h \in 1..(Len(objects) + 1) : Reset(h) /\ Tracked(MaxStagingObjects, {})

SpecStaging == Init /\ [][NextStaging]_vars

\* The branch and merge commands, with add, commit and reset to build history.
NextBranch ==
    \/ \E p \in Paths, c \in Contents : edit_file(p, c) /\ Within(MaxBranchObjects)
    \/ \E p \in Paths : add_workflow(p) /\ Within(MaxBranchObjects)
    \/ \E m \in Messages : commit_workflow(m) /\ Within(MaxBranchObjects)
    \/ \E h \in 1..(Len(objects) + 1) : Reset(h) /\ Within(MaxBranchObjects)
    \/ \E n \in Branches : create_branch(n) /\ Within(MaxBranchObjects)
    \/ \E n \in Branches : delete_branch(n) /\ Within(MaxBranchObjects)
    \/ \E n \in Branches : checkout_branch(n) /\ Within(MaxBranchObjects)
    \/ \E n \in Branches : checkout_new_branch(n) /\ Within(MaxBranchObjects)
    \/ \E n \in Branches : merge_workflow(n) /\ Within(MaxBranchObjects)

SpecBranch == Init /\ [][NextBranch]_vars

\* The stash commands, with add, commit and reset to build history.
NextStash ==
    \/ \E p \in Paths, c \in Contents : edit_file(p, c) /\ Within(MaxStashObjects)
    \/ \E p \in Paths : add_workflow(p) /\ Within(MaxStashObjects)
    \/ \E m \in Messages : commit_workflow(m) /\ Within(MaxStashObjects)
    \/ \E h \in 1..(Len(objects) + 1) : Reset(h) /\ Within(MaxStashObjects)
    \/ stash_content /\ Within(MaxStashObjects)
    \/ pop_stashed_content /\ Within(MaxStashObjects)

SpecStash == Init /\ [][NextStash]_vars

\* Cap on the stored objects for the diff specification.
MaxDiffObjects == 8

\* Commits of two file contents, and the diff of any two stored hashes.
NextDiff ==
    \/ \E p \in Paths, c \in StagingContents : edit_file(p, c) /\ Within(MaxDiffObjects)
    \/ \E p \in Paths : add_workflow(p) /\ Within(MaxDiffObjects)
    \/ \E p \in Paths : rm_workflow(p) /\ Within(MaxDiffObjects)
    \/ \E m \in Messages : commit_workflow(m) /\ Within(MaxDiffObjects)
    \/ \E c1, c2 \in 1..(Len(objects) + 1) : diff_workflow(c1, c2) /\ Within(MaxDiffObjects)

SpecDiff == Init /\ [][NextDiff]_vars

\* Caps for the specification of the commands that write HEAD and the refs.
MaxRefsObjects == 5
MaxRefsStash == 1

WithinRefs ==
    /\ Len(objects') <= MaxRefsObjects
    /\ Len(stash') <= MaxRefsStash
    /\ UNCHANGED <<fresh, made, procs>>

\* Every command that writes HEAD or a ref, with add to stage a change.
NextRefs ==
    \/ \E p \in Paths, c \in Contents : edit_file(p, c) /\ WithinRefs
    \/ \E p \in Paths : add_workflow(p) /\ WithinRefs
    \/ \E m \in Messages : commit_workflow(m) /\ WithinRefs
    \/ \E h \in 1..(Len(objects) + 1) : Reset(h) /\ WithinRefs
    \/ \E n \in Branches : create_branch(n) /\ WithinRefs
    \/ \E n \in Branches : delete_branch(n) /\ WithinRefs
    \/ \E n \in Branches : checkout_branch(n) /\ WithinRefs
    \/ \E n \in Branches : checkout_new_branch(n) /\ WithinRefs
    \/ \E n \in Branches : merge_workflow(n) /\ WithinRefs
    \/ stash_content /\ WithinRefs
    \/ pop_stashed_content /\ WithinRefs

SpecRefs == Init /\ [][NextRefs]_vars

\* Two working files, so that one can be tracked while the other is not.
FramePaths == {"a", "b"}

\* Caps for the specification of the Materializer on two paths.
MaxFrameObjects == 5
MaxFrameStash == 1

WithinFrame ==
    /\ Len(objects') <= MaxFrameObjects
    /\ Len(stash') <= MaxFrameStash
    /\ UNCHANGED <<fresh, made, procs>>

\* The commands that materialize a commit, on two paths.
NextFrame ==
    \/ \E p \in FramePaths, c \in Contents : edit_file(p, c) /\ WithinFrame
    \/ \E p \in FramePaths : add_workflow(p) /\ WithinFrame
    \/ \E m \in Messages : commit_workflow(m) /\ WithinFrame
    \/ \E h \in 1..(Len(objects) + 1) : Reset(h) /\ WithinFrame
    \/ \E n \in Branches : checkout_branch(n) /\ WithinFrame
    \/ stash_content /\ WithinFrame
    \/ pop_stashed_content /\ WithinFrame

SpecFrame == Init /\ [][NextFrame]_vars

\* Caps for the specification of stashes carried between branches.
MaxPopObjects == 6
MaxPopStash == 1

WithinPop ==
    /\ Len(objects') <= MaxPopObjects
    /\ Len(stash') <= MaxPopStash
    /\ UNCHANGED <<fresh, made, procs>>

\* Commits, branches and stashes; no command takes a hash, so a ref only
\* moves to a new commit or to a popped stash.
NextPop ==
    \/ \E p \in Paths, c \in Contents : edit_file(p, c) /\ WithinPop
    \/ \E p \in Paths : add_workflow(p) /\ WithinPop
    \/ \E m \in Messages : commit_workflow(m) /\ WithinPop
    \/ \E n \in Branches : checkout_new_branch(n) /\ WithinPop
    \/ \E n \in Branches : checkout_branch(n) /\ WithinPop
    \/ stash_content /\ WithinPop
    \/ pop_stashed_content /\ WithinPop

SpecPop == Init /\ [][NextPop]_vars

-----------------------------------------------------------------------------
(* add_workflow run by two processes at once.  Each process goes through
   add_workflow statement by statement; a read or a write of one file is
   one step, and there is no lock. *)

\* The process starts on a new path p that the other process is not adding:
\* let mut staging_area = read_staging_area()?.  serial records whether the
\* other process is outside add_workflow at that time.
add_read_staging_area(i, p) ==
    /\ procs[i].pc = "idle"
    /\ p \in DOMAIN wd
    /\ p \notin DOMAIN read_index(indexFile)
    /\ \A j \in ProcIds \ {i} : procs[j].path # p
    /\ procs' = [procs EXCEPT ![i] =
                    [pc |-> "read_index", path |-> p,
                     staging_area |-> read_staging_area(stagingExists, staging),
                     index |-> EmptyMap,
                     serial |-> \A j \in ProcIds \ {i} : procs[j].pc \in {"idle", "done"}]]
    /\ UNCHANGED <<objects, refs, head, indexFile, stagingExists, staging,
                   stashExists, stash, wd, last, fresh, made>>

\* A process that starts from an empty Index instead of the saved one.
add_read_index_none(i) ==
    /\ procs[i].pc = "read_index"
    /\ procs' = [procs EXCEPT ![i].pc = "add_file", ![i].index = EmptyMap]
    /\ UNCHANGED <<objects, refs, head, indexFile, stagingExists, staging,
                   stashExists, stash, wd, last, fresh, made>>

\* let mut index = read_index()?
add_read_index(i) ==
    /\ procs[i].pc = "read_index"
    /\ procs' = [procs EXCEPT ![i].pc = "add_file",
                              ![i].index = read_index(indexFile)]
    /\ UNCHANGED <<objects, refs, head, indexFile, stagingExists, staging,
                   stashExists, stash, wd, last, fresh, made>>

\* add_file(path, &mut staging_area, &mut index): the blob is stored, the
\* maps the process holds are updated.
add_add_file(i) ==
    /\ procs[i].pc = "add_file"
    /\ LET r == add_file(objects, procs[i].path, procs[i].staging_area, procs[i].index)
       IN  /\ objects' = r.store
           /\ procs' = [procs EXCEPT ![i].pc = "write_staging",
                                     ![i].staging_area = r.staging_area,
                                     ![i].index = r.index]
    /\ UNCHANGED <<refs, head, indexFile, stagingExists, staging,
                   stashExists, stash, wd, last, fresh, made>>

\* write_staging_area(&staging_area)?
add_write_staging_area(i) ==
    /\ procs[i].pc = "write_staging"
    /\ staging' = write_staging_area(procs[i].staging_area)
    /\ stagingExists' = TRUE
    /\ procs' = [procs EXCEPT ![i].pc = "write_index"]
    /\ UNCHANGED <<objects, refs, head, indexFile, stashExists, stash, wd,
                   last, fresh, made>>

\* write_index(&index)?; Ok(()): the process ends.
add_write_index(i) ==
    /\ procs[i].pc = "write_index"
    /\ indexFile' = write_index(procs[i].index)
    /\ procs' = [procs EXCEPT ![i].pc = "done",
                              ![i].staging_area = NewStagingArea,
                              ![i].index = EmptyMap]
    /\ Done("add", "ok")
    /\ UNCHANGED <<objects, refs, head, stagingExists, staging, stashExists,
                   stash, wd, fresh, made>>

\* The working files are written first; then the two processes run.
NextAdd ==
    \/ \E p \in FramePaths, c \in StagingContents :
          /\ \A i \in ProcIds : procs[i].pc = "idle"
          /\ edit_file(p, c)
          /\ UNCHANGED <<fresh, made, procs>>
    \/ \E i \in ProcIds, p \in FramePaths : add_read_staging_area(i, p)
    \/ \E i \in ProcIds : add_read_index(i)
    \/ \E i \in ProcIds : add_add_file(i)
    \/ \E i \in ProcIds : add_write_staging_area(i)
    \/ \E i \in ProcIds : add_write_index(i)

SpecAdd == Init /\ [][NextAdd]_vars

-----------------------------------------------------------------------------
(* Notions the properties are stated in *)

IsCommit(objs, h) == Has(objs, h) /\ objs[h].type = "commit"

\* The path -> hash map of the tree of commit c.
TreeOf(objs, c) == get_tree_files(objs, get_commit_tree(objs, c))

\* The parent header of commit c (NoHash for the initial commit).
ParentOf(objs, c) == get_parent_commit(objs[c].headers)

\* c, its parent, its parent's parent, ...: as far as these are commits.
RECURSIVE Ancestry(_, _, _)
Ancestry(objs, c, fuel) ==
    IF fuel = 0 \/ ~IsCommit(objs, c) THEN <<>>
    ELSE <<c>> \o Ancestry(objs, ParentOf(objs, c), fuel - 1)

ProperAncestor(objs, a, b) ==
    a # b /\ a \in Range(Ancestry(objs, b, Len(objs)))

\* Every path of the map m is a working file holding the blob m names.
OnDisk(objs, w, m) ==
    \A p \in DOMAIN m : p \in DOMAIN w /\ w[p] = objs[m[p]].data

\* The three partitions of the Staging Delta as the STAGING file lists them.
FileAdded(file) == {l[3] : l \in {x \in file : x[1] = "A"}}
FileModified(file) == {l[3] : l \in {x \in file : x[1] = "M"}}
FileDeleted(file) == {l[2] : l \in {x \in file : x[1] = "D"}}

\* The Index I with the file's added and modified entries inserted and its
\* deleted paths removed.
Applied(file, I) ==
    [p \in (DOMAIN I \cup FileAdded(file) \cup FileModified(file)) \ FileDeleted(file) |->
        IF p \in FileModified(file)
        THEN (CHOOSE l \in file : l[1] = "M" /\ l[3] = p)[2]
        ELSE IF p \in FileAdded(file)
        THEN (CHOOSE l \in file : l[1] = "A" /\ l[3] = p)[2]
        ELSE I[p]]

Repository == <<objects, refs, head, indexFile, stagingExists, staging,
                stashExists, stash, wd>>

-----------------------------------------------------------------------------
(* Properties *)

\* C1: when master is current, B is another existing branch and master's tip
\* is a proper ancestor of B's tip, `merge B` succeeds and leaves
\* current_commit() = B's tip, the Index equal to the map of B's tree and
\* every path of B's tree holding that tree's blob on disk.
C1_FastForwardMerge ==
    [][\A b \in Branches :
         ( /\ merge_workflow(b)
           /\ head = "master"
           /\ b # "master"
           /\ b \in DOMAIN refs
           /\ IsCommit(objects, refs[b])
           /\ ProperAncestor(objects, refs["master"], refs[b]) )
         => ( /\ last'.res = "ok"
              /\ get_current_commit(head', refs') = refs[b]
              /\ read_index(indexFile') = TreeOf(objects, refs[b])
              /\ OnDisk(objects, wd', TreeOf(objects, refs[b])) )]_vars

\* C2: in every reachable state no path is in more than one of the Added,
\* Modified and Deleted partitions of the saved Staging Delta.
C2_StagingPartitionUnique ==
    /\ FileAdded(staging) \cap FileModified(staging) = {}
    /\ FileAdded(staging) \cap FileDeleted(staging) = {}
    /\ FileModified(staging) \cap FileDeleted(staging) = {}

\* C3: in every reachable state every branch ref holds the hash of a stored
\* object of type commit.
C3_RefsPointToCommits ==
    \A b \in DOMAIN refs : IsCommit(objects, refs[b])

\* C4: after `rm p` of a path on disk and in the Index, p is absent from the
\* Index and in the Deleted partition as the next command loads it; a commit
\* that follows with nothing else staged does not report "nothing to commit"
\* but creates a commit whose tree has no row for p.
C4_RmRecordsDeletion ==
    [][\A p \in Paths :
         /\ (rm_workflow(p) /\ p \in DOMAIN wd /\ p \in DOMAIN read_index(indexFile))
               => /\ p \notin DOMAIN read_index(indexFile')
                  /\ p \in Range(read_staging_area(stagingExists', staging').deleted)
         /\ ( /\ last.cmd = "rm"
              /\ stagingExists
              /\ staging = {<<"D", p>>}
              /\ \E m \in Messages : commit_workflow(m) )
               => /\ last'.out # "Nothing to commit"
                  /\ get_current_commit(head', refs') # get_current_commit(head, refs)
                  /\ IsCommit(objects', get_current_commit(head', refs'))
                  /\ p \notin DOMAIN TreeOf(objects', get_current_commit(head', refs'))]_vars

\* C5: for every commit K that `commit` created after `add F` read content c,
\* whatever ran since, `reset K` succeeds and leaves the working file F with
\* content c, Index[F] = hash(c) and no Staging Delta.
C5_AddCommitResetRoundTrip ==
    (last.cmd = "reset" /\ last.res # "NotFound")
        => \A m \in made :
              m[1] = get_current_commit(head, refs)
                 => /\ last.res = "ok"
                    /\ m[2] \in DOMAIN wd
                    /\ wd[m[2]] = m[3]
                    /\ m[2] \in DOMAIN read_index(indexFile)
                    /\ objects[read_index(indexFile)[m[2]]] = Blob(m[3])
                    /\ ~stagingExists

\* C6: `stash` pushes the hash of a new stash commit as the first line of the
\* stash stack; `stash pop` materializes the first line and removes exactly
\* that line, so N pops after N pushes S1..SN materialize SN, ..., S1; a pop
\* on an empty or absent stack fails with "cannot pop, stash something
\* first" and changes nothing.
C6_StashLIFO ==
    [][/\ stash_content
          => \E s \in 1..Len(objects') :
                /\ objects'[s].type = "commit"
                /\ objects'[s].msg = "stash"
                /\ stashExists'
                /\ stash' = <<s>> \o (IF stashExists THEN stash ELSE <<>>)
       /\ (pop_stashed_content /\ (~stashExists \/ stash = <<>>))
          => /\ last'.res = "NotFound"
             /\ UNCHANGED Repository
       /\ (pop_stashed_content /\ stashExists /\ stash # <<>>)
          => /\ stash' = Tail(stash)
             /\ stashExists'
             /\ last'.res = "ok"
             /\ get_current_commit(head', refs') = Head(stash)
             /\ read_index(indexFile') = TreeOf(objects, Head(stash))
             /\ OnDisk(objects, wd', TreeOf(objects, Head(stash)))]_vars

\* Two stashes S1, S2 were pushed and the first pop has just materialized S2,
\* leaving S1 on the stack.
C6_Witness ==
    /\ last.cmd = "pop"
    /\ last.res = "ok"
    /\ stash # <<>>
    /\ Head(stash) # get_current_commit(head, refs)
    /\ objects[get_current_commit(head, refs)].msg = "stash"

\* C7: `stash` run with Index I and immediately followed by `stash pop`
\* leaves the Index equal to I and every path of I holding the blob of I[p]
\* on disk; a file newly added before the stash (in I, and in no tree of the
\* current commit) is absent from disk after `stash`.
C7_StashRoundTrip ==
    [][/\ stash_content
          => \A p \in DOMAIN read_index(indexFile) :
                (IsCommit(objects, get_current_commit(head, refs))
                    => p \notin DOMAIN TreeOf(objects, get_current_commit(head, refs)))
                => p \notin DOMAIN wd'
       /\ (last.cmd = "stash" /\ pop_stashed_content)
          => /\ last'.res = "ok"
             /\ read_index(indexFile') = last.pre
             /\ OnDisk(objects', wd', last.pre)]_vars

\* C8: `commit` with a non-empty Staging Delta file D, Index I and current
\* commit C creates a commit K with parent C whose tree is I with D's added
\* and modified entries inserted and D's deleted paths removed; the current
\* branch ref becomes K, HEAD and every other ref are unchanged, the saved
\* Index equals that tree's map and the Staging Delta file is gone.
C8_CommitPipeline ==
    [][\A m \in Messages :
         (commit_workflow(m) /\ stagingExists /\ staging # {})
         => LET K == get_current_commit(head', refs') IN
            /\ IsCommit(objects', K)
            /\ ParentOf(objects', K) = get_current_commit(head, refs)
            /\ TreeOf(objects', K) = Applied(staging, read_index(indexFile))
            /\ head' = head
            /\ \A b \in DOMAIN refs : b # head => refs'[b] = refs[b]
            /\ DOMAIN refs' = DOMAIN refs
            /\ read_index(indexFile') = TreeOf(objects', K)
            /\ ~stagingExists']_vars

\* C9: `commit` with all three partitions of the Staging Delta empty reports
\* nothing to commit, returns without error, writes no object and leaves
\* HEAD, every ref, the Index, the stash stack and the working directory
\* unchanged.
C9_CommitNothingStaged ==
    [][\A m \in Messages :
         (commit_workflow(m) /\ (~stagingExists \/ staging = {}))
         => /\ last'.out = "Nothing to commit"
            /\ last'.res = "ok"
            /\ UNCHANGED Repository]_vars

\* `commit` has just reported nothing to commit on a repository with a
\* non-empty Index and a non-empty stash stack.
C9_Witness ==
    /\ last.cmd = "commit"
    /\ last.out = "Nothing to commit"
    /\ last.res = "ok"
    /\ indexFile # {}
    /\ stash # <<>>

\* C10: `branch checkout name` of an existing branch sets HEAD to name,
\* leaves every ref unchanged, discards the Staging Delta and leaves the
\* Index equal to the tree of name's tip with every path of that tree
\* holding the tree's blob on disk; of a missing branch it fails with
\* NotFound and leaves HEAD unchanged.
C10_CheckoutEffect ==
    [][\A n \in Branches :
         /\ (checkout_branch(n) /\ n \in DOMAIN refs)
            => /\ last'.res = "ok"
               /\ head' = n
               /\ refs' = refs
               /\ ~stagingExists'
               /\ read_index(indexFile') = TreeOf(objects, refs[n])
               /\ OnDisk(objects, wd', TreeOf(objects, refs[n]))
         /\ (checkout_branch(n) /\ n \notin DOMAIN refs)
            => /\ last'.res = "NotFound"
               /\ head' = head]_vars

\* The initial commit that init writes: the empty tree and no parent line.
InitialCommit == Commit(<< <<"tree", 1>> >>, "Initial commit")

\* Following parent headers from c visits only commits and ends at the
\* parentless initial commit within fuel steps.
RECURSIVE EndsAtInitial(_, _, _)
EndsAtInitial(objs, c, fuel) ==
    IF fuel = 0 \/ ~IsCommit(objs, c) THEN FALSE
    ELSE IF ParentOf(objs, c) = NoHash THEN objs[c] = InitialCommit
    ELSE EndsAtInitial(objs, ParentOf(objs, c), fuel - 1)

\* C11: in every reachable state, following parent headers from any commit
\* that a branch ref or a line of the stash stack names visits only commit
\* objects and ends at the parentless initial commit.
C11_CommitChainTerminates ==
    \A c \in Range(refs) \cup Range(stash) :
        IsCommit(objects, c) => EndsAtInitial(objects, c, Len(objects))

\* C12: no command deletes or alters a stored object; every (type, payload)
\* pair has one hash, a repeated put of a stored pair returns that hash and
\* leaves the store unchanged, get of a put hash returns the pair put, and
\* get of a hash never put returns absent.
C12_ObjectStoreIdentity ==
    [][/\ \A h \in DOMAIN objects : Has(objects', h) /\ objects'[h] = objects[h]
       /\ \A h1, h2 \in DOMAIN objects' : objects'[h1] = objects'[h2] => h1 = h2
       /\ \A o \in Range(objects') \cup {Blob(c) : c \in Contents} :
             LET r == write_object(objects', o)
             IN  /\ Has(r.store, r.hash) /\ r.store[r.hash] = o
                 /\ \A h \in DOMAIN objects' : r.store[h] = objects'[h]
                 /\ o \in Range(objects') => r.store = objects'
                 /\ write_object(r.store, o) = r
       /\ ~Has(objects', Len(objects') + 1)]_vars

\* `stash` has run twice on the same Index and commit: the second put of the
\* same stash commit returned the hash of the first.
C12_Witness ==
    /\ last.cmd = "stash"
    /\ Len(stash) = 2
    /\ stash[1] = stash[2]
    /\ Len(objects) = 3

C14_BranchCreate ==
    [][\A n \in Branches :
         create_branch(n)
         => /\ n = "master"
               => last'.res = "PermissionDenied" /\ UNCHANGED Repository
            /\ (n # "master" /\ n \in DOMAIN refs)
               => last'.res = "AlreadyExists" /\ UNCHANGED Repository
            /\ (n # "master" /\ n \notin DOMAIN refs)
               => /\ last'.res = "ok"
                  /\ DOMAIN refs' = DOMAIN refs \cup {n}
                  /\ refs'[n] = get_current_commit(head, refs)
                  /\ \A b \in DOMAIN refs : refs'[b] = refs[b]
                  /\ UNCHANGED <<objects, head, indexFile, stagingExists, staging,
                                 stashExists, stash, wd>>]_vars

\* `branch create dev` has just created dev on master with a change staged.
C14_Witness ==
    /\ last.cmd = "create"
    /\ last.res = "ok"
    /\ head = "master"
    /\ "dev" \in DOMAIN refs
    /\ refs["dev"] = refs["master"]
    /\ stagingExists /\ staging # {}

\* C15: `branch delete name` fails and changes nothing for master and for the
\* current branch (PermissionDenied) and for a missing ref (NotFound);
\* otherwise it removes exactly that ref and leaves HEAD, every other ref,
\* the Index and the object store unchanged.
C15_BranchDelete ==
    [][\A n \in Branches :
         delete_branch(n)
         => /\ (n = "master" \/ n = head)
               => last'.res = "PermissionDenied" /\ UNCHANGED Repository
            /\ (n # "master" /\ n # head /\ n \notin DOMAIN refs)
               => last'.res = "NotFound" /\ UNCHANGED Repository
            /\ (n # "master" /\ n # head /\ n \in DOMAIN refs)
               => /\ last'.res = "ok"
                  /\ DOMAIN refs' = DOMAIN refs \ {n}
                  /\ \A b \in DOMAIN refs' : refs'[b] = refs[b]
                  /\ UNCHANGED <<objects, head, indexFile, stagingExists, staging,
                                 stashExists, stash, wd>>]_vars

\* `branch delete dev` has just removed dev, leaving master alone, in a store
\* that holds a later commit than master's tip.
C15_Witness ==
    /\ last.cmd = "delete"
    /\ last.res = "ok"
    /\ DOMAIN refs = {"master"}
    /\ \E c \in DOMAIN objects :
          IsCommit(objects, c) /\ c # refs["master"] /\ objects[c] # InitialCommit

\* C16: `merge B` fails with InvalidInput when B is the current branch and
\* otherwise with PermissionDenied when the current branch is not master or
\* B is master; a rejected merge changes no file.
C16_MergePolicy ==
    [][\A b \in Branches :
         merge_workflow(b)
         => /\ b = head
               => last'.res = "InvalidInput" /\ UNCHANGED Repository
            /\ (b # head /\ (head # "master" \/ b = "master"))
               => last'.res = "PermissionDenied" /\ UNCHANGED Repository]_vars

\* `merge master` has just been rejected on branch dev.
C16_Witness ==
    /\ last.cmd = "merge"
    /\ last.res = "PermissionDenied"
    /\ head = "dev"

\* C17: with master current and B another existing branch, when B's tip is
\* master's tip, or behind it, or has diverged from it (master's tip is no
\* proper ancestor of B's tip), `merge B` returns without error and changes
\* no file.
C17_NonFastForwardMerge ==
    [][\A b \in Branches :
         ( /\ merge_workflow(b)
           /\ head = "master"
           /\ b # "master"
           /\ b \in DOMAIN refs
           /\ EndsAtInitial(objects, refs["master"], Len(objects))
           /\ EndsAtInitial(objects, refs[b], Len(objects))
           /\ ~ProperAncestor(objects, refs["master"], refs[b]) )
         => last'.res = "ok" /\ UNCHANGED Repository]_vars

\* C18: `reset T` with T absent from the store or the hash of a blob or tree
\* fails with "Commit not found" (NotFound) and changes no file.
C18_ResetRejectsNonCommits ==
    [][\A h \in 1..(Len(objects) + 1) :
         (Reset(h) /\ ~IsCommit(objects, h))
         => last'.res = "NotFound" /\ UNCHANGED Repository]_vars

\* C19: right after init HEAD names master, master's ref is the initial
\* commit (the empty tree, no parent line) and the Index is empty; in every
\* reachable state HEAD names a branch whose ref exists and holds the hash of
\* a stored object.
C19_CurrentCommitDefined ==
    /\ last.cmd = "init"
          => /\ head = "master"
             /\ Has(objects, refs["master"])
             /\ objects[refs["master"]] = InitialCommit
             /\ objects[get_commit_tree(objects, refs["master"])] = Tree(<<>>)
             /\ ParentOf(objects, refs["master"]) = NoHash
             /\ indexFile = {}
    /\ head \in DOMAIN refs
    /\ Has(objects, get_current_commit(head, refs))

\* `stash pop` has just moved the ref of the checked-out branch dev to a
\* stash commit.
C19_Witness ==
    /\ last.cmd = "pop"
    /\ last.res = "ok"
    /\ head = "dev"
    /\ refs["dev"] # refs["master"]
    /\ objects[refs["dev"]].msg = "stash"

\* The first commit of Y's parent chain that is also on X's parent chain.
FirstCommon(objs, X, Y) ==
    LET ax == Ancestry(objs, X, Len(objs))
        ay == Ancestry(objs, Y, Len(objs))
        hits == {i \in DOMAIN ay : ay[i] \in Range(ax)}
    IN  IF hits = {} THEN NoHash
        ELSE ay[CHOOSE i \in hits : \A j \in hits : i <= j]

\* C20: for the tips X and Y of any two branches whose parent chains end at
\* the initial commit, find_merge_base(X, Y) does not fail and returns the
\* first commit of Y's chain that is on X's chain.
C20_MergeBase ==
    \A b1, b2 \in DOMAIN refs :
        ( /\ EndsAtInitial(objects, refs[b1], Len(objects))
          /\ EndsAtInitial(objects, refs[b2], Len(objects)) )
        => /\ find_merge_base(objects, refs[b1], refs[b2]) # NoHash
           /\ find_merge_base(objects, refs[b1], refs[b2])
                 = FirstCommon(objects, refs[b1], refs[b2])

C22_MaterializerFrame ==
    [][( /\ last'.cmd \in {"reset", "checkout", "checkout-new", "merge", "stash", "pop"}
         /\ last'.res = "ok"
         /\ last'.out = "" )
       => LET T == get_current_commit(head', refs')
              I == read_index(indexFile)
              N == TreeOf(objects', T)
          IN  /\ IsCommit(objects', T)
              /\ read_index(indexFile') = N
              /\ \A p \in DOMAIN I \ DOMAIN N : p \notin DOMAIN wd'
              /\ \A p \in DOMAIN wd \ (DOMAIN I \cup DOMAIN N) :
                    p \in DOMAIN wd' /\ wd'[p] = wd[p]]_vars

\* A materialization has just removed the committed file a, which the new
\* tree does not hold, and left the untracked file b on disk.
C22_Witness ==
    /\ last.cmd \in {"reset", "checkout", "stash", "pop"}
    /\ last.res = "ok"
    /\ "a" \notin DOMAIN wd
    /\ "b" \in DOMAIN wd
    /\ "b" \notin DOMAIN read_index(indexFile)
    /\ \E h \in DOMAIN objects :
          /\ objects[h].type = "tree"
          /\ DOMAIN TreeFiles(objects[h].rows) = {"a"}

\* C23: `stash` run with Index I and current commit C creates a commit S with
\* parent C, message `stash` and a tree holding exactly the entries of I,
\* puts S first on the stash stack with the previous entries following in
\* their order, and leaves the current commit equal to C, the Index equal to
\* C's tree, the Staging Delta empty and every path of C's tree holding C's
\* blob content on disk.
C23_StashEffect ==
    [][stash_content
       => LET I == read_index(indexFile)
              C == get_current_commit(head, refs)
          IN  /\ last'.res = "ok"
              /\ stash' # <<>>
              /\ LET S == Head(stash') IN
                 /\ IsCommit(objects', S)
                 /\ ParentOf(objects', S) = C
                 /\ objects'[S].msg = "stash"
                 /\ TreeOf(objects', S) = I
                 /\ stash' = <<S>> \o stash
              /\ get_current_commit(head', refs') = C
              /\ read_index(indexFile') = TreeOf(objects', C)
              /\ read_staging_area(stagingExists', staging') = NewStagingArea
              /\ ~stagingExists'
              /\ OnDisk(objects', wd', TreeOf(objects', C))]_vars

\* C24: after a successful `stash pop` of stash object S, the ref of the
\* branch HEAD names contains S itself (not S's parent), HEAD and the other
\* refs are as before, and the commit chain of that branch starts with the
\* `stash` commit, also when S was created on another branch.
C24_PopMovesTip ==
    [][(last'.cmd = "pop" /\ last'.res = "ok")
       => /\ stash # <<>>
          /\ LET S == Head(stash) IN
             /\ head' = head
             /\ refs'[head] = S
             /\ get_current_commit(head', refs') = S
             /\ S # ParentOf(objects', S)
             /\ IsCommit(objects', S)
             /\ objects'[S].msg = "stash"
             /\ Head(Ancestry(objects', refs'[head], 1)) = S
             /\ \A b \in DOMAIN refs : b # head => refs'[b] = refs[b]]_vars

\* dev holds a popped stash whose parent is the tip master has always had,
\* and which is younger than a commit made on dev: the stash was made on
\* master.
C24_Witness ==
    /\ last.cmd = "pop"
    /\ last.res = "ok"
    /\ head = "dev"
    /\ "dev" \in DOMAIN refs
    /\ objects[refs["dev"]].msg = "stash"
    /\ ParentOf(objects, refs["dev"]) = refs["master"]
    /\ objects[refs["master"]] = InitialCommit
    /\ \E K \in 1..(refs["dev"] - 1) :
          /\ IsCommit(objects, K)
          /\ objects[K].msg \in Messages
          /\ ParentOf(objects, K) = refs["master"]

\* C25: every hash stored in a branch ref, in the Index, in an Added or
\* Modified line of the Staging Delta, in the stash stack, in a `tree` or
\* `parent` header of a stored commit, or in a row of a stored tree is the
\* hash of an object present in the object store.
C25_NoDanglingReferences ==
    /\ \A b \in DOMAIN refs : Has(objects, refs[b])
    /\ \A l \in indexFile : Has(objects, l[1])
    /\ \A l \in staging : l[1] \in {"A", "M"} => Has(objects, l[2])
    /\ \A i \in DOMAIN stash : Has(objects, stash[i])
    /\ \A h \in DOMAIN objects :
          /\ \A i \in DOMAIN objects[h].headers : Has(objects, objects[h].headers[i][2])
          /\ \A i \in DOMAIN objects[h].rows : Has(objects, objects[h].rows[i][3])

\* Two branches, a non-empty Index, a staged addition, a stash on the stack,
\* a commit with a parent and a tree with a row, all at once.
C25_Witness ==
    /\ "dev" \in DOMAIN refs
    /\ indexFile # {}
    /\ FileAdded(staging) # {}
    /\ stash # <<>>
    /\ \E h \in DOMAIN objects :
          IsCommit(objects, h) /\ ParentOf(objects, h) # NoHash
    /\ \E h \in DOMAIN objects : objects[h].rows # <<>>

\* C26: when two `add` commands for different new paths run as separate
\* processes with no lock, the blob of each file is in the object store in
\* every interleaving, and when one process runs wholly after the other
\* both paths are in the Index and in the Added partition; some interleaving
\* (the witness) ends with only one of the two paths in each.
C26_ConcurrentAdd ==
    /\ \A i \in ProcIds :
          procs[i].pc \in {"write_staging", "write_index", "done"}
          => \E h \in DOMAIN objects : objects[h] = Blob(wd[procs[i].path])
    /\ (\A i \in ProcIds : procs[i].pc = "done" /\ procs[i].serial)
       => \A i \in ProcIds :
             /\ procs[i].path \in DOMAIN read_index(indexFile)
             /\ procs[i].path \in DOMAIN read_staging_area(stagingExists, staging).added

\* Both processes have ended, their runs overlapped, and the Index and the
\* Staging Delta each hold one of the two paths only.
C26_Witness ==
    /\ \A i \in ProcIds : procs[i].pc = "done"
    /\ \E i \in ProcIds : ~procs[i].serial
    /\ \E i \in ProcIds : procs[i].path \notin DOMAIN read_index(indexFile)
    /\ \E i \in ProcIds : procs[i].path \in DOMAIN read_index(indexFile)
    /\ \E i \in ProcIds :
          procs[i].path \notin DOMAIN read_staging_area(stagingExists, staging).added
    /\ \E i \in ProcIds :
          procs[i].path \in DOMAIN read_staging_area(stagingExists, staging).added

====
